---- MODULE Spec2Model ----
(***************************************************************************)
(* The /process-images handler of app.py as a state machine: one request   *)
(* is validated, its image pairs are decoded and uploaded, the vision      *)
(* model is called once, and the flags of every analysis record are sent   *)
(* to the proctoring report API.                                           *)
(*                                                                         *)
(* Encodings.  A JSON string field is the sequence of segments that        *)
(* str.split('base64,') returns for it, so a string always has at least    *)
(* one segment and the empty sequence stands for a missing field (None).   *)
(* An uploaded image's secure_url is the record [pid, kind, uid] of the    *)
(* public_id the handler built for it.  The notification's "time" field    *)
(* (the wall clock) is left out of the payload.                            *)
(***************************************************************************)
EXTENDS Integers, Sequences, FiniteSets, TLC

\* Bounds of the model.
MaxPairs == 3
MaxItems == 2

(***************************************************************************)
(* Inputs: request bodies.                                                 *)
(***************************************************************************)
None == <<>>

Missing == "<missing>"

FieldValues ==
    { None,
      <<"">>,
      <<"AAAA">>,
      <<"A">>,
      <<"data:image/png;", "AAAA">> }

NotDictPair == [isdict |-> FALSE, screenshot |-> None, pc_capture |-> None]

\* A pair is no object, or an object with at most one field that is not a
\* plain base64 string, or an object with both fields missing.
PairValues ==
    {NotDictPair} \cup
    { p \in [isdict : {TRUE}, screenshot : FieldValues, pc_capture : FieldValues] :
          \/ p.screenshot = <<"AAAA">>
          \/ p.pc_capture = <<"AAAA">>
          \/ p.screenshot = None /\ p.pc_capture = None }

SeqsUpTo(S, n) == UNION { [1..m -> S] : m \in 0..n }

ImagesValues ==
    { [shape |-> "missing", pairs |-> <<>>],
      [shape |-> "notlist", pairs |-> <<>>] } \cup
    { [shape |-> "list", pairs |-> ps] : ps \in SeqsUpTo(PairValues, MaxPairs) }

ProctoringIds == {Missing, "", "exam42"}

Requests ==
    { [isdict |-> FALSE, proctoring_id |-> Missing,
       images |-> [shape |-> "missing", pairs |-> <<>>]] } \cup
    [isdict : {TRUE}, proctoring_id : ProctoringIds, images : ImagesValues]

(***************************************************************************)
(* Inputs: what the vision model returns.                                  *)
(***************************************************************************)
PredKeys ==
    {"multiple_faces", "no_face", "face_partially_visible", "looking_away",
     "suspicious_movements"}

JsonBool == {"true", "false", "absent"}

Items == {"phone", "book"}

NoProhibited ==
    [shape |-> "absent", detected |-> "absent", items_shape |-> "absent",
     items |-> <<>>]

NullProhibited ==
    [shape |-> "null", detected |-> "absent", items_shape |-> "absent",
     items |-> <<>>]

ProhibitedValues ==
    {NoProhibited, NullProhibited} \cup
    { [shape |-> "dict", detected |-> d, items_shape |-> s, items |-> <<>>] :
          d \in JsonBool, s \in {"absent", "null"} } \cup
    { [shape |-> "dict", detected |-> d, items_shape |-> "list", items |-> its] :
          d \in JsonBool, its \in SeqsUpTo(Items, MaxItems) }

AllFalse == [k \in PredKeys |-> "false"]

NullAnalysis == [isdict |-> FALSE, preds |-> AllFalse, proh |-> NoProhibited]

AnalysisValues ==
    {NullAnalysis} \cup
    [isdict : {TRUE}, preds : [PredKeys -> JsonBool], proh : ProhibitedValues]

CleanAnalysis ==
    [isdict |-> TRUE, preds |-> AllFalse,
     proh |-> [shape |-> "dict", detected |-> "false", items_shape |-> "list",
               items |-> <<>>]]

FlaggedAnalysis ==
    [isdict |-> TRUE,
     preds |-> [AllFalse EXCEPT !["multiple_faces"] = "true"],
     proh |-> [shape |-> "dict", detected |-> "true", items_shape |-> "list",
               items |-> <<"phone", "book">>]]

BrokenAnalysis ==
    [isdict |-> TRUE,
     preds |-> [AllFalse EXCEPT !["looking_away"] = "true"],
     proh |-> NullProhibited]

NoAnalysisElement == [has_analysis |-> FALSE, analysis |-> NullAnalysis]

Element(a) == [has_analysis |-> TRUE, analysis |-> a]

SampleElements ==
    { NoAnalysisElement, Element(NullAnalysis), Element(CleanAnalysis),
      Element(FlaggedAnalysis), Element(BrokenAnalysis) }

NoReply == [kind |-> "none", elems |-> <<>>]

Replies ==
    { [kind |-> k, elems |-> <<>>] : k \in {"raise", "notjson", "object"} } \cup
    { [kind |-> "list", elems |-> es] : es \in SeqsUpTo(SampleElements, MaxPairs) }

Outcomes == {"ok", "network_error", "http_error"}

(***************************************************************************)
(* Helpers of the handler.                                                 *)
(***************************************************************************)
\* Python's `not x` for a field that is a string or None.
Falsy(field) == field = None \/ field = <<"">>

\* Mutant: the pair is rejected only when both fields are missing.
MissingField_both(pair) == Falsy(pair.screenshot) /\ Falsy(pair.pc_capture)

MissingField(pair) == Falsy(pair.screenshot) \/ Falsy(pair.pc_capture)

\* Mutant: the 0-based loop index is reported.
PairNumber_zero(idx) == idx

PairNumber(idx) == idx + 1

\* base64.b64decode of one segment: it raises on incorrect padding.
b64decode(seg) == seg \in {"", "AAAA"}

\* Mutant: the data-URL prefix is not stripped.
StripPrefix_none(field) == field[1]

\* The text handed to b64decode: the part after 'base64,' when there is one.
StripPrefix(field) == IF Len(field) > 1 THEN field[2] ELSE field[1]

\* Lines 105-108: b64decode of None raises as well.
DecodeImage(field) == field # None /\ b64decode(StripPrefix(field))

generate_unique_filename(n) == n + 1

SecureUrl(pid, kind, uid) == [pid |-> pid, kind |-> kind, uid |-> uid]

\* Mutant: the upload loop is left after the first pair.
LoopDone_early(idx, pairs) == idx >= 1

LoopDone(idx, pairs) == idx = Len(pairs)

flag_mappings ==
    << [key |-> "multiple_faces", flag |-> "multiple_faces_detected"],
       [key |-> "no_face", flag |-> "no_face_detected"],
       [key |-> "face_partially_visible", flag |-> "face_partially_visible"],
       [key |-> "looking_away", flag |-> "looking_away"],
       [key |-> "suspicious_movements", flag |-> "suspicious_movements"] >>

\* Mutant: every value but false raises the flag.
IsTrue_notfalse(v) == v # "false"

\* analysis.get(key) == True
IsTrue(v) == v = "true"

Triggered(analysis) ==
    SelectSeq(flag_mappings, LAMBDA m : IsTrue(analysis.preds[m.key]))

PredicateFlags(analysis) ==
    [j \in 1..Len(Triggered(analysis)) |-> Triggered(analysis)[j].flag]

ProhibitedFlagType(item) == "prohibited_object_" \o item

ProhibitedFlags(analysis) ==
    IF analysis.proh.shape = "dict" /\ IsTrue(analysis.proh.detected)
          /\ analysis.proh.items_shape = "list"
    THEN [j \in 1..Len(analysis.proh.items) |->
              ProhibitedFlagType(analysis.proh.items[j])]
    ELSE <<>>

\* The flag types check_and_send_flags sends, in order, up to its return or
\* to the exception it raises.
check_and_send_flags(analysis) ==
    IF ~analysis.isdict THEN <<>>
    ELSE PredicateFlags(analysis) \o ProhibitedFlags(analysis)

\* Whether check_and_send_flags raises: analysis or prohibited_objects has
\* no .get, or items cannot be iterated.
FlagsRaise(analysis) ==
    \/ ~analysis.isdict
    \/ analysis.proh.shape = "null"
    \/ /\ analysis.proh.shape = "dict"
       /\ IsTrue(analysis.proh.detected)
       /\ analysis.proh.items_shape = "null"

\* Mutant: the decode error is not raised.
json_loads_lenient(text) == [decode_error |-> FALSE, value |-> text]

\* json.loads(content): a JSONDecodeError is raised for text that is not JSON.
json_loads(text) ==
    [decode_error |-> text.kind = "notjson", value |-> text]

\* Mutant: a connection error is not caught.
send_flag_notification_uncaught(outcome) ==
    [returned |-> outcome = "ok", raised |-> outcome = "network_error"]

\* send_flag_notification: every requests exception is caught.
send_flag_notification(outcome) ==
    [returned |-> outcome = "ok", raised |-> FALSE]

FlagPayload(pid, flag, shot, pccap) ==
    [proctoring_id |-> pid, flag |-> flag, screenshot |-> shot,
     pc_capture |-> pccap]

(***************************************************************************)
(* Responses.                                                              *)
(***************************************************************************)
NoResponse == [status |-> 0, error |-> "", pair |-> 0, body |-> <<>>]

ErrorResponse(status, msg, n) ==
    [status |-> status, error |-> msg, pair |-> n, body |-> <<>>]

OkResponse(entries) == [status |-> 200, error |-> "", pair |-> 0, body |-> entries]

ErrProctoringId == "proctoring_id is required"
ErrNoImages == "No images provided or invalid format"
ErrMissingField == "Missing screenshot or pc_capture for image pair"
ErrUpload == "Failed to upload image pair"
ErrParse == "Failed to parse OpenAI response"
ErrException == "<str(e)>"
ErrUnhandled == "<unhandled exception>"

(***************************************************************************)
(* State.                                                                  *)
(***************************************************************************)
VARIABLES
    request,          \* request.json
    pc,               \* position of the handler
    index,            \* loop variable of the upload loop (0-based)
    next_uid,         \* unique identifiers handed out so far
    screenshot_result,\* secure_url of the screenshot of the current pair
    analysis_urls, screenshot_urls, pc_capture_urls,
    content,          \* the model's reply
    parsed_content,   \* json.loads of the model's reply
    i,                \* loop variable of the result loop (0-based)
    final_response,
    pending,          \* flags check_and_send_flags has still to send
    calls,            \* collaborator calls made, in order
    store,            \* secure_urls of the images in the image store
    sent,             \* payloads PATCHed to the report API, in order
    notify_failed,    \* an "Error sending flag notification" was printed
    response          \* the HTTP response, status 0 while there is none

vars ==
    << request, pc, index, next_uid, screenshot_result, analysis_urls,
       screenshot_urls, pc_capture_urls, content, parsed_content, i,
       final_response, pending, calls, store, sent, notify_failed, response >>

Call(op, n, what) == [op |-> op, idx |-> n, what |-> what]

NoUrl == SecureUrl(Missing, "", 0)

Init ==
    /\ request \in Requests
    /\ pc = "start"
    /\ index = 0
    /\ next_uid = 0
    /\ screenshot_result = NoUrl
    /\ analysis_urls = <<>>
    /\ screenshot_urls = <<>>
    /\ pc_capture_urls = <<>>
    /\ content = NoReply
    /\ parsed_content = NoReply
    /\ i = 0
    /\ final_response = <<>>
    /\ pending = <<>>
    /\ calls = <<>>
    /\ store = <<>>
    /\ sent = <<>>
    /\ notify_failed = FALSE
    /\ response = NoResponse

Return(r) == pc' = "done" /\ response' = r

(***************************************************************************)
(* process_images, step by step.                                           *)
(***************************************************************************)
uploadVars == << index, next_uid, screenshot_result, analysis_urls,
                 screenshot_urls, pc_capture_urls, store >>

resultVars == << content, parsed_content, i, final_response, pending, sent,
                 notify_failed >>

\* Lines 78-86: the request-level checks.
ValidateRequest ==
    /\ pc = "start"
    /\ IF ~request.isdict
       THEN Return(ErrorResponse(500, ErrUnhandled, 0))
       ELSE IF request.proctoring_id \in {Missing, ""}
       THEN Return(ErrorResponse(400, ErrProctoringId, 0))
       ELSE IF request.images.shape # "list" \/ request.images.pairs = <<>>
       THEN Return(ErrorResponse(400, ErrNoImages, 0))
       ELSE pc' = "pair" /\ response' = response
    /\ UNCHANGED << request, uploadVars, resultVars, calls >>

\* Lines 93-98: the head of the upload loop and the check of one pair.
CheckPair ==
    /\ pc = "pair"
    /\ IF LoopDone(index, request.images.pairs)
       THEN pc' = "model" /\ response' = response
       ELSE LET image_pair == request.images.pairs[index + 1] IN
            IF ~image_pair.isdict
            THEN Return(ErrorResponse(500, ErrException, 0))
            ELSE IF MissingField(image_pair)
            THEN Return(ErrorResponse(400, ErrMissingField, PairNumber(index)))
            ELSE pc' = "screenshot" /\ response' = response
    /\ UNCHANGED << request, uploadVars, resultVars, calls >>

\* Lines 104-115: decode and upload the screenshot.
UploadScreenshot ==
    /\ pc = "screenshot"
    /\ next_uid' = generate_unique_filename(next_uid)
    /\ IF ~DecodeImage(request.images.pairs[index + 1].screenshot)
       THEN /\ Return(ErrorResponse(500, ErrUpload, PairNumber(index)))
            /\ UNCHANGED << calls, screenshot_result, store >>
       ELSE /\ calls' = Append(calls, Call("upload", index + 1, "screen"))
            /\ \E uploaded \in BOOLEAN :
                 IF uploaded
                 THEN /\ screenshot_result' =
                            SecureUrl(request.proctoring_id, "screen", next_uid')
                      /\ store' = Append(store, screenshot_result')
                      /\ pc' = "pc_capture"
                      /\ response' = response
                 ELSE /\ Return(ErrorResponse(500, ErrUpload, PairNumber(index)))
                      /\ UNCHANGED << screenshot_result, store >>
    /\ UNCHANGED << request, index, analysis_urls, screenshot_urls,
                    pc_capture_urls, resultVars >>

\* Lines 118-140: decode and upload the PC capture, then keep both URLs.
UploadPcCapture ==
    /\ pc = "pc_capture"
    /\ next_uid' = generate_unique_filename(next_uid)
    /\ IF ~DecodeImage(request.images.pairs[index + 1].pc_capture)
       THEN /\ Return(ErrorResponse(500, ErrUpload, PairNumber(index)))
            /\ UNCHANGED << calls, store, index, analysis_urls, screenshot_urls,
                            pc_capture_urls >>
       ELSE /\ calls' = Append(calls, Call("upload", index + 1, "pc"))
            /\ \E uploaded \in BOOLEAN :
                 IF uploaded
                 THEN /\ store' = Append(store, SecureUrl(request.proctoring_id,
                                                          "pc", next_uid'))
                      /\ analysis_urls' = Append(analysis_urls, screenshot_result)
                      /\ screenshot_urls' = Append(screenshot_urls, screenshot_result)
                      /\ pc_capture_urls' =
                            Append(pc_capture_urls,
                                   SecureUrl(request.proctoring_id, "pc", next_uid'))
                      /\ index' = index + 1
                      /\ pc' = "pair"
                      /\ response' = response
                 ELSE /\ Return(ErrorResponse(500, ErrUpload, PairNumber(index)))
                      /\ UNCHANGED << store, index, analysis_urls, screenshot_urls,
                                      pc_capture_urls >>
    /\ UNCHANGED << request, screenshot_result, resultVars >>

\* Lines 145-201: one chat completion over analysis_urls, and json.loads.
CallModel ==
    /\ pc = "model"
    /\ calls' = Append(calls, Call("model", Len(analysis_urls), "gpt-4o-mini"))
    /\ \E reply \in Replies :
         /\ content' = reply
         /\ IF reply.kind = "raise"
            THEN Return(ErrorResponse(500, ErrException, 0))
                 /\ UNCHANGED parsed_content
            ELSE IF json_loads(reply).decode_error
            THEN Return(ErrorResponse(500, ErrParse, 0))
                 /\ UNCHANGED parsed_content
            ELSE /\ parsed_content' = json_loads(reply).value
                 /\ pc' = "record"
                 /\ response' = response
    /\ UNCHANGED << request, uploadVars, i, final_response, pending, sent,
                    notify_failed >>

\* Mutant: every record of the reply is checked before the first one is used.
HasRecord_upfront(parsed, n) ==
    /\ parsed.kind = "list"
    /\ \A m \in 1..Len(analysis_urls) :
          m <= Len(parsed.elems) /\ parsed.elems[m].has_analysis

\* parsed_content[i]["analysis"] can be read.
HasRecord(parsed, n) ==
    /\ parsed.kind = "list"
    /\ n + 1 <= Len(parsed.elems)
    /\ parsed.elems[n + 1].has_analysis

\* Mutant: the entry carries the PC capture's URL.
AnalysisResult_pc_url(n) ==
    [image_url |-> pc_capture_urls[n + 1],
     analysis |-> parsed_content.elems[n + 1].analysis]

AnalysisResult(n) ==
    [image_url |-> analysis_urls[n + 1],
     analysis |-> parsed_content.elems[n + 1].analysis]

\* Lines 204-219: the head of the result loop, the entry of record i and the
\* call of check_and_send_flags; after the last record, the 200 response.
EvalRecord ==
    /\ pc = "record"
    /\ IF i = Len(analysis_urls)
       THEN Return(OkResponse(final_response))
            /\ UNCHANGED << final_response, pending >>
       ELSE IF ~HasRecord(parsed_content, i)
       THEN Return(ErrorResponse(500, ErrException, 0))
            /\ UNCHANGED << final_response, pending >>
       ELSE /\ final_response' = Append(final_response, AnalysisResult(i))
            /\ pending' = check_and_send_flags(parsed_content.elems[i + 1].analysis)
            /\ pc' = "flags"
            /\ response' = response
    /\ UNCHANGED << request, uploadVars, content, parsed_content, i, calls,
                    sent, notify_failed >>

\* Lines 68 and 74 with lines 31-54: one PATCH to the report API.
SendNotification ==
    /\ pc = "flags"
    /\ pending # <<>>
    /\ calls' = Append(calls, Call("notify", i + 1, Head(pending)))
    /\ sent' = Append(sent, FlagPayload(request.proctoring_id, Head(pending),
                                        screenshot_urls[i + 1],
                                        pc_capture_urls[i + 1]))
    /\ \E outcome \in Outcomes :
         LET result == send_flag_notification(outcome) IN
         /\ notify_failed' = (notify_failed \/ ~result.returned \/ result.raised)
         /\ IF result.raised
            THEN Return(ErrorResponse(500, ErrException, 0)) /\ UNCHANGED pending
            ELSE pending' = Tail(pending) /\ UNCHANGED << pc, response >>
    /\ UNCHANGED << request, uploadVars, content, parsed_content, i,
                    final_response >>

\* Lines 56-74: check_and_send_flags returns, or raises past its last send.
FlagsReturn ==
    /\ pc = "flags"
    /\ pending = <<>>
    /\ IF FlagsRaise(parsed_content.elems[i + 1].analysis)
       THEN Return(ErrorResponse(500, ErrException, 0)) /\ UNCHANGED i
       ELSE i' = i + 1 /\ pc' = "record" /\ response' = response
    /\ UNCHANGED << request, uploadVars, content, parsed_content,
                    final_response, pending, calls, sent, notify_failed >>

Next ==
    \/ ValidateRequest
    \/ CheckPair
    \/ UploadScreenshot
    \/ UploadPcCapture
    \/ CallModel
    \/ EvalRecord
    \/ SendNotification
    \/ FlagsReturn

Spec == Init /\ [][Next]_vars

(***************************************************************************)
(* check_and_send_flags over every analysis value: the handler stands at   *)
(* the head of the result loop with two pairs uploaded and a reply of two  *)
(* records, one of them any analysis value and the other one clean.        *)
(***************************************************************************)
GoodPair == [isdict |-> TRUE, screenshot |-> <<"AAAA">>, pc_capture |-> <<"AAAA">>]

TwoPairRequest ==
    [isdict |-> TRUE, proctoring_id |-> "exam42",
     images |-> [shape |-> "list", pairs |-> <<GoodPair, GoodPair>>]]

InitFlags ==
    /\ request = TwoPairRequest
    /\ pc = "record"
    /\ index = 2
    /\ next_uid = 4
    /\ screenshot_result = SecureUrl("exam42", "screen", 3)
    /\ analysis_urls = << SecureUrl("exam42", "screen", 1),
                          SecureUrl("exam42", "screen", 3) >>
    /\ screenshot_urls = analysis_urls
    /\ pc_capture_urls = << SecureUrl("exam42", "pc", 2),
                            SecureUrl("exam42", "pc", 4) >>
    /\ store = << SecureUrl("exam42", "screen", 1), SecureUrl("exam42", "pc", 2),
                  SecureUrl("exam42", "screen", 3), SecureUrl("exam42", "pc", 4) >>
    /\ calls = << Call("upload", 1, "screen"), Call("upload", 1, "pc"),
                  Call("upload", 2, "screen"), Call("upload", 2, "pc"),
                  Call("model", 2, "gpt-4o-mini") >>
    /\ \E a \in AnalysisValues, k \in 1..2 :
         content = [kind |-> "list",
                    elems |-> [n \in 1..2 |-> IF n = k THEN Element(a)
                                              ELSE Element(CleanAnalysis)]]
    /\ parsed_content = content
    /\ i = 0
    /\ final_response = <<>>
    /\ pending = <<>>
    /\ sent = <<>>
    /\ notify_failed = FALSE
    /\ response = NoResponse

NextFlags ==
    \/ EvalRecord
    \/ SendNotification
    \/ FlagsReturn

SpecFlags == InitFlags /\ [][NextFlags]_vars

(***************************************************************************)
(* Vocabulary of the properties.                                           *)
(***************************************************************************)
Done == pc = "done"

Pairs == request.images.pairs

RequestOk ==
    /\ request.isdict
    /\ request.proctoring_id \notin {Missing, ""}
    /\ request.images.shape = "list"
    /\ Pairs # <<>>

\* The secure_urls of pair n (1-based): the handler draws one identifier for
\* the screenshot and the next one for the PC capture.
ShotUrlOf(n) == [pid |-> request.proctoring_id, kind |-> "screen", uid |-> 2 * n - 1]

PcUrlOf(n) == [pid |-> request.proctoring_id, kind |-> "pc", uid |-> 2 * n]

\* The first m upload calls of a request whose uploads all succeed.
UploadCalls(m) ==
    [j \in 1..m |-> [op |-> "upload", idx |-> (j + 1) \div 2,
                     what |-> IF j % 2 = 1 THEN "screen" ELSE "pc"]]

StoredAsUploaded ==
    \A j \in DOMAIN store :
        store[j] = IF j % 2 = 1 THEN ShotUrlOf((j + 1) \div 2) ELSE PcUrlOf(j \div 2)

PairLacksField(p) ==
    /\ p.isdict
    /\ (p.screenshot \in {<<>>, <<"">>} \/ p.pc_capture \in {<<>>, <<"">>})

FirstMissingAt(k) ==
    /\ k \in 1..Len(Pairs)
    /\ PairLacksField(Pairs[k])
    /\ \A j \in 1..(k - 1) : ~PairLacksField(Pairs[j])

\* The text after the optional data-URL prefix is valid base64.
Decodable(field) == field # <<>> /\ field[Len(field)] = "AAAA"

\* The payloads sent for record n (1-based), recognised by the screenshot URL.
RecordSent(n) == SelectSeq(sent, LAMBDA p : p.screenshot = ShotUrlOf(n))

RecordFlags(n) == [j \in 1..Len(RecordSent(n)) |-> RecordSent(n)[j].flag]

\* check_and_send_flags has been left for record n (1-based).
Evaluated(n) ==
    \/ n <= i
    \/ n = i + 1 /\ pc = "flags" /\ pending = <<>>
    \/ n = i + 1 /\ Done /\ Len(final_response) = n

TrueCount(a) == Cardinality({k \in PredKeys : a.preds[k] = "true"})

ReportedItems(a) ==
    IF a.proh.shape = "dict" /\ a.proh.detected = "true"
          /\ a.proh.items_shape = "list"
    THEN a.proh.items
    ELSE <<>>

FlagTable ==
    { <<"multiple_faces", "multiple_faces_detected">>,
      <<"no_face", "no_face_detected">>,
      <<"face_partially_visible", "face_partially_visible">>,
      <<"looking_away", "looking_away">>,
      <<"suspicious_movements", "suspicious_movements">> }

Occurrences(fl, x) == Cardinality({j \in DOMAIN fl : fl[j] = x})

FlagsAsClaimed(a, fl) ==
    /\ \A m \in FlagTable :
          Occurrences(fl, m[2]) = IF a.preds[m[1]] = "true" THEN 1 ELSE 0
    /\ Len(fl) = TrueCount(a) + Len(ReportedItems(a))
    /\ \A j \in 1..Len(ReportedItems(a)) :
          fl[TrueCount(a) + j] = "prohibited_object_" \o ReportedItems(a)[j]

\* prohibited_objects is absent or an object and, when detected is true, its
\* items are absent or a sequence.
WellFormed(a) ==
    /\ a.isdict
    /\ a.proh.shape # "null"
    /\ ~(a.proh.shape = "dict" /\ a.proh.detected = "true"
           /\ a.proh.items_shape = "null")

RecordAt(n) ==
    /\ parsed_content.kind = "list"
    /\ n <= Len(parsed_content.elems)
    /\ parsed_content.elems[n].has_analysis

AnalysisAt(n) == parsed_content.elems[n].analysis

NRecords == Len(analysis_urls)

(***************************************************************************)
(* C1: the collaborator calls of a request are phased: every upload of     *)
(* the request (two per pair) comes before the one model call, and every   *)
(* notification after it; no upload follows the model call and no          *)
(* notification precedes it, and the model is called at most once.         *)
(***************************************************************************)
C1_PhaseOrder ==
    /\ \A a, b \in DOMAIN calls :
          a < b /\ calls[a].op \in {"model", "notify"} => calls[b].op = "notify"
    /\ \A b \in DOMAIN calls :
          calls[b].op = "notify" => \E a \in 1..(b - 1) : calls[a].op = "model"
    /\ \A a \in DOMAIN calls :
          calls[a].op = "model" => a - 1 = 2 * Len(Pairs)

C1_Witness ==
    /\ Done
    /\ response.status = 200
    /\ Len(Pairs) = 2
    /\ \E b \in DOMAIN calls : calls[b].op = "notify"

(***************************************************************************)
(* C2.  Original claim: with N >= 1 valid pairs all uploaded and a reply   *)
(* of exactly N elements each holding an analysis object, the response is  *)
(* 200 with N entries in order, entry n carrying the screenshot URL of     *)
(* pair n and the analysis of element n.                                   *)
(* Amended: the same, for analysis objects that are well formed.           *)
(***************************************************************************)
C2_Requested ==
    /\ Done
    /\ RequestOk
    /\ NRecords = Len(Pairs)
    /\ parsed_content.kind = "list"
    /\ Len(parsed_content.elems) = NRecords
    /\ \A n \in 1..NRecords : RecordAt(n) /\ AnalysisAt(n).isdict

C2_Answered ==
    /\ response.status = 200
    /\ response.error = ""
    /\ Len(response.body) = NRecords
    /\ \A n \in 1..NRecords :
          /\ response.body[n].image_url = ShotUrlOf(n)
          /\ response.body[n].analysis = AnalysisAt(n)

\* C2 as claimed: N analysis objects give the 200 response.
C2_Original == C2_Requested => C2_Answered

\* C2 as amended: N well-formed analysis objects give the 200 response.
C2_SuccessResponse ==
    (C2_Requested /\ \A n \in 1..NRecords : WellFormed(AnalysisAt(n)))
        => C2_Answered

C2_Witness ==
    /\ Done
    /\ response.status = 200
    /\ Len(response.body) = 2
    /\ response.body[1].analysis = CleanAnalysis
    /\ response.body[2].analysis = FlaggedAnalysis

(***************************************************************************)
(* C3: when check_and_send_flags is left for record n, the notifications   *)
(* sent for it are one per predicate that is true, with the flag type of   *)
(* the table, none for a predicate that is false or absent, and then,      *)
(* only when prohibited_objects.detected is true, one per item in item     *)
(* order; each carries the proctoring_id and both URLs of pair n.          *)
(***************************************************************************)
C3_FlagsSent ==
    /\ \A n \in 1..NRecords :
          Evaluated(n) =>
              /\ FlagsAsClaimed(AnalysisAt(n), RecordFlags(n))
              /\ \A j \in DOMAIN RecordSent(n) :
                    /\ RecordSent(n)[j].proctoring_id = request.proctoring_id
                    /\ RecordSent(n)[j].pc_capture = PcUrlOf(n)
    /\ \A j \in DOMAIN sent :
          \E n \in 1..NRecords : sent[j].screenshot = ShotUrlOf(n)

C3_Witness ==
    /\ pc = "flags"
    /\ pending = <<>>
    /\ i = 1
    /\ AnalysisAt(2).preds["multiple_faces"] = "true"
    /\ AnalysisAt(2).preds["no_face"] = "false"
    /\ AnalysisAt(2).preds["looking_away"] = "absent"
    /\ AnalysisAt(2).proh.detected = "true"
    /\ AnalysisAt(2).proh.items = <<"phone", "book">>
    /\ RecordFlags(2) = << "multiple_faces_detected", "prohibited_object_phone",
                           "prohibited_object_book" >>

(***************************************************************************)
(* C4.  Original claim: if the first pair missing a field is pair k, the   *)
(* response is 400 "Missing screenshot or pc_capture for image pair k",    *)
(* and no image of pair k or later is uploaded, the model is not called    *)
(* and nothing is notified.                                                *)
(* Amended: nothing of pair k or later is ever uploaded, the model is not  *)
(* called and nothing is notified; the response is that 400 when every     *)
(* pair before k has been decoded and uploaded.                            *)
(***************************************************************************)
C4_NothingFrom(k) ==
    /\ \A c \in DOMAIN calls : calls[c].op = "upload" /\ calls[c].idx < k
    /\ sent = <<>>

\* C4 as claimed: the first pair missing a field, pair k, gets the 400 for k.
C4_Original ==
    (Done /\ RequestOk) =>
        \A k \in 1..Len(Pairs) :
            (FirstMissingAt(k) /\ \A j \in 1..(k - 1) : Pairs[j].isdict) =>
                /\ response = ErrorResponse(400, ErrMissingField, k)
                /\ C4_NothingFrom(k)

\* C4 as amended: nothing of pair k or later is uploaded, and the 400 for k
\* is returned when every pair before k has been uploaded.
C4_MissingField ==
    RequestOk =>
        \A k \in 1..Len(Pairs) :
            FirstMissingAt(k) =>
                /\ C4_NothingFrom(k)
                /\ (Done /\ Len(pc_capture_urls) = k - 1) =>
                       response = ErrorResponse(400, ErrMissingField, k)

C4_Witness ==
    /\ Done
    /\ FirstMissingAt(2)
    /\ response = ErrorResponse(400, ErrMissingField, 2)
    /\ Len(calls) = 2

(***************************************************************************)
(* C5: when the model's reply is not valid JSON the response is 500        *)
(* "Failed to parse OpenAI response", no notification is sent, the model   *)
(* has been called once and nothing of the reply is used.                  *)
(***************************************************************************)
C5_ParseFailure ==
    content.kind = "notjson" =>
        /\ Done
        /\ response = ErrorResponse(500, ErrParse, 0)
        /\ sent = <<>>
        /\ parsed_content = NoReply
        /\ final_response = <<>>
        /\ Cardinality({c \in DOMAIN calls : calls[c].op = "model"}) = 1
        /\ \A c \in DOMAIN calls : calls[c].op # "notify"

C5_Witness ==
    /\ Done
    /\ content.kind = "notjson"
    /\ Len(Pairs) = 2
    /\ Len(calls) = 5

(***************************************************************************)
(* C6: the response does not depend on how notifications are delivered:    *)
(* once the reply is parsed the response is decided by the reply and the   *)
(* uploaded URLs alone, and every record the result loop has left has had  *)
(* each of its notifications attempted exactly once, whether or not a      *)
(* delivery failed.                                                        *)
(***************************************************************************)
C6_NotificationsSwallowed ==
    /\ (Done /\ parsed_content.kind # "none") =>
          IF \A n \in 1..NRecords : RecordAt(n) /\ WellFormed(AnalysisAt(n))
          THEN /\ response.status = 200
               /\ Len(response.body) = NRecords
               /\ response.body = final_response
          ELSE response = ErrorResponse(500, ErrException, 0)
    /\ \A n \in 1..NRecords :
          Evaluated(n) =>
              Len(RecordSent(n)) =
                  TrueCount(AnalysisAt(n)) + Len(ReportedItems(AnalysisAt(n)))

C6_Witness ==
    /\ Done
    /\ notify_failed
    /\ response.status = 200
    /\ Len(response.body) = 2
    /\ Len(sent) = 6

(***************************************************************************)
(* C7: a request without proctoring_id, whatever the shape of its body,    *)
(* gets 400 "proctoring_id is required", and one with a proctoring_id      *)
(* whose images are absent, empty or no sequence gets 400 "No images       *)
(* provided or invalid format"; no collaborator is called.                 *)
(***************************************************************************)
C7_Original ==
    Done =>
        /\ (~request.isdict \/ request.proctoring_id \in {Missing, ""}) =>
              response = ErrorResponse(400, ErrProctoringId, 0) /\ calls = <<>>
        /\ (/\ request.isdict
            /\ request.proctoring_id \notin {Missing, ""}
            /\ (request.images.shape # "list" \/ Pairs = <<>>)) =>
              response = ErrorResponse(400, ErrNoImages, 0) /\ calls = <<>>

(***************************************************************************)
(* C8: when the handler stops inside pair k, a pair with both fields       *)
(* present, the response is 500 "Failed to upload image pair k"; the       *)
(* calls made are the uploads of the pairs before k and, of pair k, only   *)
(* those up to the failure (none if the screenshot does not decode, the    *)
(* screenshot alone if its upload fails or the PC capture does not         *)
(* decode); the model is not called, nothing is notified, and every image  *)
(* uploaded before the failure is still in the store.                      *)
(***************************************************************************)
C8_StoppedInPair ==
    /\ Done
    /\ RequestOk
    /\ Len(pc_capture_urls) < Len(Pairs)
    /\ Pairs[Len(pc_capture_urls) + 1].isdict
    /\ ~PairLacksField(Pairs[Len(pc_capture_urls) + 1])

\* C8: stopping inside pair k gives the 500 for k, the uploads up to the
\* failure and nothing else, with the store keeping what was uploaded.
C8_UploadFailure ==
    /\ C8_StoppedInPair =>
          LET k == Len(pc_capture_urls) + 1
              before == 2 * (k - 1)
              shot == [op |-> "upload", idx |-> k, what |-> "screen"]
              cap == [op |-> "upload", idx |-> k, what |-> "pc"]
          IN  /\ response = ErrorResponse(500, ErrUpload, k)
              /\ sent = <<>>
              /\ StoredAsUploaded
              /\ IF ~Decodable(Pairs[k].screenshot)
                 THEN calls = UploadCalls(before) /\ Len(store) = before
                 ELSE IF Len(store) = before
                 THEN calls = UploadCalls(before) \o <<shot>>
                 ELSE /\ Len(store) = before + 1
                      /\ calls = IF ~Decodable(Pairs[k].pc_capture)
                                 THEN UploadCalls(before) \o <<shot>>
                                 ELSE UploadCalls(before) \o <<shot, cap>>
    /\ response.error = ErrUpload => C8_StoppedInPair
    /\ \A n \in 1..Len(pc_capture_urls) :
          Decodable(Pairs[n].screenshot) /\ Decodable(Pairs[n].pc_capture)

C8_Witness ==
    /\ Done
    /\ response = ErrorResponse(500, ErrUpload, 2)
    /\ Decodable(Pairs[2].pc_capture)
    /\ Len(calls) = 4
    /\ Len(store) = 3

(***************************************************************************)
(* C9.  Original claim: a request that ends with a 400 response has made   *)
(* no upload, no model call and no notification.                           *)
(* Amended: it has made no model call and no notification; it has made no  *)
(* upload when the 400 is about proctoring_id or images, and when it is    *)
(* about pair k it has uploaded the two images of every pair before k and  *)
(* nothing of pair k or later.                                             *)
(***************************************************************************)
\* C9 as claimed: a 400 response means no collaborator was called.
C9_Original == (Done /\ response.status = 400) => calls = <<>>

\* C9 as amended: a 400 response means no model call, no notification and
\* only the uploads of the pairs before the offending one.
C9_ClientErrors ==
    (Done /\ response.status = 400) =>
        /\ sent = <<>>
        /\ \A c \in DOMAIN calls : calls[c].op = "upload"
        /\ response.error \in {ErrProctoringId, ErrNoImages, ErrMissingField}
        /\ response.error \in {ErrProctoringId, ErrNoImages} =>
              calls = <<>> /\ store = <<>>
        /\ response.error = ErrMissingField =>
              /\ response.pair \in 1..Len(Pairs)
              /\ PairLacksField(Pairs[response.pair])
              /\ calls = UploadCalls(2 * (response.pair - 1))
              /\ Len(store) = 2 * (response.pair - 1)
              /\ StoredAsUploaded

C9_Witness ==
    /\ Done
    /\ response.status = 400
    /\ response.pair = 3
    /\ Len(calls) = 4
    /\ Len(store) = 4

(***************************************************************************)
(* C10.  Original claim: when the reply parses and its first element       *)
(* that is missing or has no analysis is element k (1-based, k <= N), the  *)
(* response is one 500 error object without entries, the notifications of  *)
(* every record before k have been sent, in record order, and none is      *)
(* sent for record k or a later one.                                       *)
(* Amended: the same, when the analysis of every record before k is well   *)
(* formed.                                                                 *)
(***************************************************************************)
\* Element n of the reply holds an analysis object.
C10_HasAnalysis(n) == RecordAt(n) /\ AnalysisAt(n).isdict

C10_FirstGapAt(k) ==
    /\ k \in 1..NRecords
    /\ ~C10_HasAnalysis(k)
    /\ \A j \in 1..(k - 1) : C10_HasAnalysis(j)

C10_Outcome(k) ==
    /\ response = ErrorResponse(500, ErrException, 0)
    /\ \A n \in 1..(k - 1) : FlagsAsClaimed(AnalysisAt(n), RecordFlags(n))
    /\ \A n \in k..NRecords : RecordSent(n) = <<>>
    /\ \A a, b \in DOMAIN sent : a < b => sent[a].screenshot.uid <= sent[b].screenshot.uid

\* C10 as claimed: for every first gap k the outcome is as described.
C10_Original ==
    (Done /\ parsed_content.kind # "none") =>
        \A k \in 1..NRecords : C10_FirstGapAt(k) => C10_Outcome(k)

\* C10 as amended: the same when every record before k is well formed.
C10_MalformedReply ==
    (Done /\ parsed_content.kind # "none") =>
        \A k \in 1..NRecords :
            (C10_FirstGapAt(k) /\ \A j \in 1..(k - 1) : WellFormed(AnalysisAt(j)))
                => C10_Outcome(k)

C10_Witness ==
    /\ Done
    /\ C10_FirstGapAt(3)
    /\ AnalysisAt(1) = FlaggedAnalysis
    /\ AnalysisAt(2) = FlaggedAnalysis
    /\ Len(sent) = 6
    /\ response = ErrorResponse(500, ErrException, 0)

====
